---- MODULE Spec2Model ----
(***************************************************************************)
(* A model of scrape_evaluations.py (src/evaluation_registry): the crawl   *)
(* of the paginated listing, the extraction of one record per link, and    *)
(* the in-place normalisation and event reshaping of df_details.           *)
(*                                                                         *)
(* A text is a sequence of segments (strings).  The separator ", ", the    *)
(* prefix "Closed organisation: " and the newline artifact of the          *)
(* "Evaluation types" cell are one segment each, so that str.replace,      *)
(* str.split and str.contains act on segments.  A missing value (NaN,      *)
(* None, pd.NA, NaT) is the one-segment text NaN.                          *)
(***************************************************************************)
EXTENDS Integers, Sequences, FiniteSets, TLC

VARIABLES
    pc,             \* the cell of the script that runs next, "done" or "aborted"
    abortAt,        \* the cell and the exception that ended the run ("" = none)
    page,           \* page (line 51)
    urlList,        \* urlList (line 48)
    pickles,        \* the files written by to_pickle
    details_list,   \* details_list (line 123)
    df_details,     \* df_details: [columns: sequence of names, rows: sequence of rows]
    df_dates_pivot, \* df_dates_pivot (lines 262-280), one entry per row index
    run,            \* 1: the script's run; 2: cells 139-324 applied to their own output
    first_output,   \* df_details as it was when run 1 ended
    fetched,        \* history: the page numbers requested from the listing, in order
    seen,           \* history: the /search/ hrefs of the card links inside the results containers
    last_page,      \* history: the detail page get_details parsed last
    dedup_input     \* history: the rows df_details.duplicated() was last applied to

vars == <<pc, abortAt, page, urlList, pickles, details_list, df_details,
          df_dates_pivot, run, first_output, fetched, seen, last_page, dedup_input>>

-----------------------------------------------------------------------------
(* Bounds *)

MaxPages == 2       \* listing pages a site can have
MaxAnchors == 2     \* anchors inside one results container
MaxExtra == 2       \* repeated "Evaluation start" events on one detail page

-----------------------------------------------------------------------------
(* Values *)

NaN == <<"<NaN>">>
True == <<"<True>">>
False == <<"<False>">>
NoAttr == <<"<no attribute>">>
Missing == <<"<no element>">>

Range(s) == {s[i] : i \in 1..Len(s)}

RECURSIVE SeqsUpTo(_, _)
SeqsUpTo(S, n) ==
    IF n = 0 THEN {<<>>}
    ELSE LET shorter == SeqsUpTo(S, n - 1)
         IN  shorter \cup {Append(s, x) : s \in {t \in shorter : Len(t) = n - 1}, x \in S}

(* str.replace(old, new, regex=False) on one string *)
RECURSIVE str_replace(_, _, _)
str_replace(s, old, new) ==
    IF s = <<>> THEN <<>>
    ELSE (IF Head(s) = old THEN new ELSE <<Head(s)>>) \o str_replace(Tail(s), old, new)

(* str.split(sep): the list of the pieces between the separators *)
RECURSIVE str_split(_, _)
str_split(s, sep) ==
    IF \E i \in 1..Len(s) : s[i] = sep
    THEN LET i == CHOOSE i \in 1..Len(s) : s[i] = sep /\ \A j \in 1..(i - 1) : s[j] # sep
         IN  <<SubSeq(s, 1, i - 1)>> \o str_split(SubSeq(s, i + 1, Len(s)), sep)
    ELSE <<s>>

(* str.contains(label) on one string *)
str_contains(s, label) == \E i \in 1..Len(s) : s[i] = label

(* str.strip(): leading and trailing whitespace removed *)
CO == "Closed organisation: "
NL == "\n                \n                  "
IsSpace(seg) == seg \in {" ", "\n", NL}

RECURSIVE lstrip(_)
lstrip(s) == IF s # <<>> /\ IsSpace(Head(s)) THEN lstrip(Tail(s)) ELSE s

RECURSIVE rstrip(_)
rstrip(s) == IF s # <<>> /\ IsSpace(s[Len(s)]) THEN rstrip(SubSeq(s, 1, Len(s) - 1)) ELSE s

strip(s) == rstrip(lstrip(s))

(* Series.str.replace: a missing value stays missing *)
Series_str_replace(series, old, new) ==
    [i \in 1..Len(series) |->
        IF series[i] = NaN THEN NaN ELSE str_replace(series[i], old, new)]

-----------------------------------------------------------------------------
(* The listing: lines 40-81 *)

SearchHrefs == {<<"/search/", "1">>, <<"/search/", "2">>}
Hrefs == SearchHrefs \cup {<<"/about">>}

Anchors == [class : {"govuk-link", "other"}, href : Hrefs \cup {NoAttr}]

(* What session.get(URL + str(page)) can answer: a page with or without  *)
(* the results container, the anchors inside the container, and with or  *)
(* without the pagination "next" element.                                *)
ListingPages(p) ==
    [results : {TRUE}, anchors : SeqsUpTo(Anchors, MaxAnchors),
     pagination_next : IF p < MaxPages THEN BOOLEAN ELSE {FALSE}]
    \cup [results : {FALSE}, anchors : {<<>>}, pagination_next : {FALSE}]

(* re.match(r"^/search/", href) *)
re_match_search(href) == href # <<>> /\ Head(href) = "/search/"

(* lines 60-62 *)
find_all_govuk_link(soup) == SelectSeq(soup.anchors, LAMBDA a : a.class = "govuk-link")

(* lines 65-69 *)
card_hrefs(card_urls) ==
    LET kept == SelectSeq(card_urls, LAMBDA a : re_match_search(a.href))
    IN  [i \in 1..Len(kept) |-> kept[i].href]

NoAbort == [cell |-> "", exception |-> ""]

Abort(cell, exception) ==
    /\ pc' = "aborted"
    /\ abortAt' = [cell |-> cell, exception |-> exception]

(* One iteration of `while next_page` (lines 54-76). *)
Crawl ==
    /\ pc = "crawl"
    /\ \E soup \in ListingPages(page) :
        IF ~soup.results
        THEN \* cards is None: cards.find_all raises at line 60
             /\ Abort("crawl", "AttributeError")
             /\ fetched' = Append(fetched, page)
             /\ UNCHANGED <<page, urlList, seen>>
        ELSE LET card_urls == find_all_govuk_link(soup) IN
             /\ fetched' = Append(fetched, page)
             /\ seen' = seen \cup {a.href : a \in {b \in Range(card_urls) :
                                                    b.href # NoAttr /\ re_match_search(b.href)}}
             /\ IF \E i \in 1..Len(card_urls) : card_urls[i].href = NoAttr
                THEN \* url["href"] raises at line 65, before the test of line 68
                     /\ Abort("crawl", "KeyError")
                     /\ UNCHANGED <<page, urlList>>
                ELSE /\ urlList' = urlList \o card_hrefs(card_urls)
                     /\ page' = page + 1
                     /\ pc' = IF soup.pagination_next THEN "crawl" ELSE "save_links"
                     /\ UNCHANGED abortAt
    /\ UNCHANGED <<pickles, details_list, df_details, df_dates_pivot, run,
                   first_output, last_page, dedup_input>>

(* list(set(urlList)): the distinct links, in an order the set decides *)
ListsOfSet(S) == {s \in SeqsUpTo(S, Cardinality(S)) : Len(s) = Cardinality(S) /\ Range(s) = S}

(* A faulty variant: the link collection is not written *)
SaveLinks_not_persisted ==
    /\ pc = "save_links"
    /\ urlList' \in ListsOfSet(Range(urlList))
    /\ pc' = "extract"
    /\ UNCHANGED <<abortAt, page, pickles, details_list, df_details, df_dates_pivot, run,
                   first_output, fetched, seen, last_page, dedup_input>>

(* lines 79-81 *)
SaveLinks ==
    /\ pc = "save_links"
    /\ urlList' \in ListsOfSet(Range(urlList))
    /\ pickles' = pickles \cup {"urls_20250402.pkl"}
    /\ pc' = "extract"
    /\ UNCHANGED <<abortAt, page, details_list, df_details, df_dates_pivot, run,
                   first_output, fetched, seen, last_page, dedup_input>>

-----------------------------------------------------------------------------
(* The detail pages: what session.get(url) can answer for one link *)

expected_evaluation_types ==
    <<"Impact evaluation", "Process evaluation", "Value for money evaluation", "Other">>

expected_event_names ==
    <<"Intervention start date", "Intervention end date", "Evaluation start",
      "Evaluation end", "Final data analysis end", "Publication of interim results",
      "Publication of final results", "Not Set", "Other">>

SummaryRow(k, v) == [dt |-> k, dd |-> v]

EventRows(name, date) == <<SummaryRow("Event Name", name), SummaryRow("Event date", date)>>

RECURSIVE Flatten(_)
Flatten(ss) == IF ss = <<>> THEN <<>> ELSE Head(ss) \o Flatten(Tail(ss))

LeadChoices ==
    { <<>>,
      <<SummaryRow("Lead department", <<"Department X">>)>>,
      <<SummaryRow("Lead department", <<CO, "Department X">>)>> }

OtherChoices ==
    { <<SummaryRow("Other departments", <<"Department Y">>)>>,
      <<SummaryRow("Other departments", <<"Department Y", ", ", CO, "Department Z">>)>> }

AllTypes ==
    <<SummaryRow("Evaluation types",
        <<" ", "Impact evaluation", NL, "Process evaluation", NL,
          "Value for money evaluation", NL, "Other", "\n">>)>>

TypeChoices ==
    { <<>>,
      <<SummaryRow("Evaluation types", <<"\n", " ">>)>>,
      AllTypes,
      <<SummaryRow("Evaluation types", <<"Impact evaluation", NL, "Other">>)>>,
      <<SummaryRow("Evaluation types", <<"Other", " study">>)>> }

DateTexts == {<<"January", " ", "2024">>, <<"March", " ", "2024">>, <<"TBC">>}

AllEvents ==
    Flatten([i \in 1..Len(expected_event_names) |->
                EventRows(<<expected_event_names[i]>>, <<"January", " ", "2024">>)])

(* "Evaluation start" repeated, once per date text *)
RepeatedEvents ==
    { Flatten([i \in 1..Len(ds) |-> EventRows(<<"Evaluation start">>, ds[i])]) :
        ds \in SeqsUpTo(DateTexts, MaxExtra) \ {<<>>} }

EventChoices ==
    {<<>>, AllEvents} \cup RepeatedEvents
    \cup { EventRows(<<"Evaluation", " kick-off">>, <<"March", " ", "2024">>),
           <<SummaryRow("Event Name", <<"Other">>)>>,
           <<SummaryRow("Event date", <<"March", " ", "2024">>)>>,
           EventRows(<<"Other">>, <<"March", " ", "2024">>)
               \o <<SummaryRow("Event date", <<"TBC">>)>> }

DetailPage(lead, other, types, events) ==
    [h1 |-> <<" ", "An evaluation">>, p |-> <<"A description", "\n">>,
     rows |-> lead \o other \o types \o events]

NotFoundPage == [h1 |-> <<"Page not found">>, p |-> Missing, rows |-> <<>>]

BrokenPages ==
    { [h1 |-> Missing, p |-> Missing, rows |-> <<>>],
      [h1 |-> <<"An evaluation">>, p |-> Missing, rows |-> <<>>],
      [h1 |-> <<"An evaluation">>, p |-> <<"A description">>,
       rows |-> <<SummaryRow("Lead department", Missing)>>] }

(* A record that uses every entry of both vocabularies *)
CompletePages ==
    { DetailPage(l, o, AllTypes, AllEvents) : l \in LeadChoices, o \in OtherChoices }

Pages ==
    { DetailPage(l, o, t, e) : l \in LeadChoices, o \in OtherChoices,
                               t \in TypeChoices, e \in EventChoices }

(* The first link leads to a complete record, to the not-found page or to a *)
(* broken page; the second link to any page.                                *)
SitePages(partial) ==
    IF partial = <<"/search/", "1">>
    THEN CompletePages \cup {NotFoundPage} \cup BrokenPages
    ELSE Pages \cup {NotFoundPage} \cup BrokenPages

-----------------------------------------------------------------------------
(* get_details: lines 85-118.  A dict is the sequence of its items in      *)
(* insertion order.                                                        *)

Item(k, v) == [key |-> k, value |-> v]

has_key(d, k) == \E i \in 1..Len(d) : d[i].key = k

dict_get(d, k) == d[CHOOSE i \in 1..Len(d) : d[i].key = k].value

dict_set(d, k, v) ==
    IF has_key(d, k)
    THEN [i \in 1..Len(d) |-> IF d[i].key = k THEN Item(k, v) ELSE d[i]]
    ELSE Append(d, Item(k, v))

(* lines 108-116: a repeated key's values are joined with ", " *)
RECURSIVE summary_rows(_, _)
summary_rows(details, rows) ==
    IF rows = <<>> THEN details
    ELSE LET key == Head(rows).dt
             value == strip(Head(rows).dd)
         IN  summary_rows(
                 IF ~has_key(details, key)
                 THEN dict_set(details, key, value)
                 ELSE dict_set(details, key, dict_get(details, key) \o <<", ">> \o value),
                 Tail(rows))

BaseUrl == "https://evaluation-registry.cabinetoffice.gov.uk"

(* A faulty variant: the record's url is the site's address, without the link's path *)
get_details_without_path(partial, soup) ==
    LET d1 == <<Item("url", <<BaseUrl>>)>>
    IN  IF soup.h1 = Missing THEN [raised |-> TRUE, details |-> d1]
        ELSE LET d2 == dict_set(d1, "title", strip(soup.h1)) IN
             IF dict_get(d2, "title") = <<"Page not found">>
             THEN [raised |-> FALSE, details |-> d2]
             ELSE IF soup.p = Missing THEN [raised |-> TRUE, details |-> d2]
             ELSE IF \E i \in 1..Len(soup.rows) : soup.rows[i].dd = Missing
                  THEN [raised |-> TRUE, details |-> d2]
                  ELSE [raised |-> FALSE,
                        details |-> summary_rows(dict_set(d2, "description", strip(soup.p)),
                                                 soup.rows)]

(* A faulty variant: no early return for the not-found heading *)
get_details_without_return(partial, soup) ==
    LET url == <<BaseUrl>> \o partial
        d1 == <<Item("url", url)>>
    IN  IF soup.h1 = Missing THEN [raised |-> TRUE, details |-> d1]
        ELSE LET d2 == dict_set(d1, "title", strip(soup.h1)) IN
             IF soup.p = Missing THEN [raised |-> TRUE, details |-> d2]
             ELSE IF \E i \in 1..Len(soup.rows) : soup.rows[i].dd = Missing
                  THEN [raised |-> TRUE, details |-> d2]
                  ELSE [raised |-> FALSE,
                        details |-> summary_rows(dict_set(d2, "description", strip(soup.p)),
                                                 soup.rows)]

(* The result is [raised, details]: raised when an element the function  *)
(* reads is not on the page (soup.find returns None).                    *)
get_details(partial, soup) ==
    LET url == <<BaseUrl>> \o partial
        d1 == <<Item("url", url)>>
    IN  IF soup.h1 = Missing THEN [raised |-> TRUE, details |-> d1]
        ELSE LET d2 == dict_set(d1, "title", strip(soup.h1)) IN
             IF dict_get(d2, "title") = <<"Page not found">>
             THEN [raised |-> FALSE, details |-> d2]
             ELSE IF soup.p = Missing THEN [raised |-> TRUE, details |-> d2]
             ELSE IF \E i \in 1..Len(soup.rows) : soup.rows[i].dd = Missing
                  THEN [raised |-> TRUE, details |-> d2]
                  ELSE [raised |-> FALSE,
                        details |-> summary_rows(dict_set(d2, "description", strip(soup.p)),
                                                 soup.rows)]

(* One iteration of `for partial in urlList` (lines 126-128). *)
Extract ==
    /\ pc = "extract"
    /\ Len(details_list) < Len(urlList)
    /\ LET partial == urlList[Len(details_list) + 1] IN
       \E soup \in SitePages(partial) :
           LET r == get_details(partial, soup) IN
           /\ last_page' = soup
           /\ IF r.raised
              THEN /\ Abort("extract", "AttributeError")
                   /\ UNCHANGED details_list
              ELSE /\ details_list' = Append(details_list, r.details)
                   /\ UNCHANGED <<pc, abortAt>>
    /\ UNCHANGED <<page, urlList, pickles, df_details, df_dates_pivot, run,
                   first_output, fetched, seen, dedup_input>>

(* pd.DataFrame(details_list): the columns are the keys in the order of  *)
(* their first appearance, a key a record lacks is NaN in its row.       *)
RECURSIVE DataFrameColumns(_, _)
DataFrameColumns(cols, items) ==
    IF items = <<>> THEN cols
    ELSE DataFrameColumns(
             IF Head(items).key \in Range(cols) THEN cols ELSE Append(cols, Head(items).key),
             Tail(items))

DataFrame(dicts) ==
    LET columns == DataFrameColumns(<<>>, Flatten(dicts))
    IN  [columns |-> columns,
         rows |-> [i \in 1..Len(dicts) |->
                      [c \in Range(columns) |->
                          IF has_key(dicts[i], c) THEN dict_get(dicts[i], c) ELSE NaN]]]

(* lines 131-137 *)
SaveDetails ==
    /\ pc = "extract"
    /\ Len(details_list) = Len(urlList)
    /\ df_details' = DataFrame(details_list)
    /\ pickles' = pickles \cup {"evaluationdetails_20250414.pkl"}
    /\ pc' = "drop_not_found"
    /\ UNCHANGED <<abortAt, page, urlList, details_list, df_dates_pivot, run,
                   first_output, fetched, seen, last_page, dedup_input>>

-----------------------------------------------------------------------------
(* DataFrame operations *)

has_column(df, c) == c \in Range(df.columns)

(* df.columns.get_loc(c): the position of the column, from 0 *)
get_loc(df, c) == (CHOOSE i \in 1..Len(df.columns) : df.columns[i] = c) - 1

(* df[c]: the Series of a column *)
get_column(df, c) == [i \in 1..Len(df.rows) |-> df.rows[i][c]]

(* df[c] = series, for a column the frame has *)
set_column(df, c, series) ==
    [df EXCEPT !.rows = [i \in 1..Len(df.rows) |-> [df.rows[i] EXCEPT ![c] = series[i]]]]

(* df.insert(loc, column, value): the caller checks that the column is new *)
insert(df, loc, column, value) ==
    [columns |-> SubSeq(df.columns, 1, loc) \o <<column>>
                 \o SubSeq(df.columns, loc + 1, Len(df.columns)),
     rows |-> [i \in 1..Len(df.rows) |-> (column :> value) @@ df.rows[i]]]

(* df.loc[~df.duplicated()]: a row equal to an earlier row is dropped *)
RECURSIVE drop_duplicated(_, _)
drop_duplicated(kept, rows) ==
    IF rows = <<>> THEN kept
    ELSE drop_duplicated(
             IF \E i \in 1..Len(kept) : kept[i] = Head(rows) THEN kept
             ELSE Append(kept, Head(rows)),
             Tail(rows))

-----------------------------------------------------------------------------
(* The Table Normalizer: lines 139-201 *)

Frame == <<page, urlList, pickles, details_list, fetched, seen, last_page>>

(* lines 140-143 *)
DropNotFound ==
    /\ pc = "drop_not_found"
    /\ IF ~has_column(df_details, "title")
       THEN /\ Abort("drop_not_found", "KeyError")   \* the frame has no columns
            /\ UNCHANGED df_details
       ELSE /\ df_details' = [df_details EXCEPT !.rows =
                    SelectSeq(df_details.rows, LAMBDA r : r["title"] # <<"Page not found">>)]
            /\ pc' = "drop_duplicates"
            /\ UNCHANGED abortAt
    /\ UNCHANGED <<Frame, df_dates_pivot, run, first_output, dedup_input>>

(* lines 146-151 *)
DropDuplicates ==
    /\ pc = "drop_duplicates"
    /\ dedup_input' = df_details.rows
    /\ df_details' = [df_details EXCEPT !.rows = drop_duplicated(<<>>, df_details.rows)]
    /\ pc' = "edit_data"
    /\ UNCHANGED <<Frame, abortAt, df_dates_pivot, run, first_output>>

(* A faulty variant: only a leading prefix is removed *)
remove_leading_closed_organisation(df, c) ==
    set_column(df, c, [i \in 1..Len(df.rows) |->
        LET v == df.rows[i][c]
        IN  IF v # NaN /\ v # <<>> /\ Head(v) = CO THEN Tail(v) ELSE v])

remove_closed_organisation(df, c) ==
    set_column(df, c, Series_str_replace(get_column(df, c), CO, <<>>))

(* lines 154-161 *)
EditData ==
    /\ pc = "edit_data"
    /\ IF ~has_column(df_details, "Lead department")
       THEN /\ Abort("edit_data", "KeyError")
            /\ UNCHANGED df_details
       ELSE LET df1 == remove_closed_organisation(df_details, "Lead department") IN
            IF ~has_column(df1, "Other departments")
            THEN /\ Abort("edit_data", "KeyError")
                 /\ df_details' = df1
            ELSE /\ df_details' = remove_closed_organisation(df1, "Other departments")
                 /\ pc' = "clean_evaluation_types"
                 /\ UNCHANGED abortAt
    /\ UNCHANGED <<Frame, df_dates_pivot, run, first_output, dedup_input>>

(* lines 164-174 *)
CleanEvaluationTypes ==
    /\ pc = "clean_evaluation_types"
    /\ IF ~has_column(df_details, "Evaluation types")
       THEN /\ Abort("clean_evaluation_types", "KeyError")
            /\ UNCHANGED df_details
       ELSE /\ df_details' = set_column(df_details, "Evaluation types",
                    Series_str_replace(get_column(df_details, "Evaluation types"), NL, <<", ">>))
            /\ pc' = "check_evaluation_types"
            /\ UNCHANGED abortAt
    /\ UNCHANGED <<Frame, df_dates_pivot, run, first_output, dedup_input>>

(* df.loc[df[c].notna()][c].str.split(", ").explode().unique(), as a set *)
unique_values(df, c) ==
    UNION { Range(str_split(df.rows[i][c], ", ")) :
                i \in {j \in 1..Len(df.rows) : df.rows[j][c] # NaN} }

TextOf(name) == <<name>>

(* the right-hand side of the assert: set(expected) *)
set_of(expected) == {TextOf(expected[i]) : i \in 1..Len(expected)}

(* the assert of lines 186-190 and of lines 222-226 *)
assert_expected(df, c, expected) == unique_values(df, c) = set_of(expected)

(* lines 177-190 *)
CheckEvaluationTypes ==
    /\ pc = "check_evaluation_types"
    /\ LET df1 == set_column(df_details, "Evaluation types",
                      [i \in 1..Len(df_details.rows) |->
                          LET v == df_details.rows[i]["Evaluation types"]
                          IN  IF v = <<>> THEN NaN ELSE v])
       IN  /\ df_details' = df1
           /\ IF assert_expected(df1, "Evaluation types", expected_evaluation_types)
              THEN pc' = "evaluation_type_columns" /\ UNCHANGED abortAt
              ELSE Abort("check_evaluation_types", "AssertionError")
    /\ UNCHANGED <<Frame, df_dates_pivot, run, first_output, dedup_input>>

(* A faulty variant: the whole string is compared with the label *)
Series_str_equals(series, label) ==
    [i \in 1..Len(series) |->
        IF series[i] = NaN THEN NaN ELSE IF series[i] = <<label>> THEN True ELSE False]

(* Series.str.contains(label) *)
Series_str_contains(series, label) ==
    [i \in 1..Len(series) |->
        IF series[i] = NaN THEN NaN
        ELSE IF str_contains(series[i], label) THEN True ELSE False]

(* lines 196-201: the loop from its i-th pass on; [raised, df] *)
RECURSIVE insert_evaluation_types(_, _, _)
insert_evaluation_types(df, pos, i) ==
    IF i > Len(expected_evaluation_types) THEN [raised |-> FALSE, df |-> df]
    ELSE LET evaluation_type == expected_evaluation_types[i] IN
         IF has_column(df, evaluation_type)
         THEN [raised |-> TRUE, df |-> df]   \* ValueError: cannot insert, already exists
         ELSE insert_evaluation_types(
                  set_column(insert(df, pos + i, evaluation_type, NaN), evaluation_type,
                      Series_str_contains(get_column(df, "Evaluation types"), evaluation_type)),
                  pos, i + 1)

(* lines 193-201 *)
EvaluationTypeColumns ==
    /\ pc = "evaluation_type_columns"
    /\ LET r == insert_evaluation_types(df_details, get_loc(df_details, "Evaluation types"), 1)
       IN  /\ df_details' = r.df
           /\ IF r.raised THEN Abort("evaluation_type_columns", "ValueError")
              ELSE pc' = "check_event_names" /\ UNCHANGED abortAt
    /\ UNCHANGED <<Frame, df_dates_pivot, run, first_output, dedup_input>>

-----------------------------------------------------------------------------
(* The Event Timeline Reshaper: lines 203-324 *)

(* lines 204-226 *)
CheckEventNames ==
    /\ pc = "check_event_names"
    /\ IF ~has_column(df_details, "Event Name")
       THEN Abort("check_event_names", "KeyError")
       ELSE IF assert_expected(df_details, "Event Name", expected_event_names)
            THEN pc' = "reshape_events" /\ UNCHANGED abortAt
            ELSE Abort("check_event_names", "AssertionError")
    /\ UNCHANGED <<Frame, df_details, df_dates_pivot, run, first_output, dedup_input>>

(* A missing value in a column of lists *)
NaNList == <<NaN>>

is_list(x) == x # NaNList

(* Series.str.split(", "): a list per string, a missing value stays missing *)
Series_str_split(series) ==
    [i \in 1..Len(series) |->
        IF series[i] = NaN THEN NaNList ELSE str_split(series[i], ", ")]

(* df[c] = series, for a new column or one the frame has *)
assign(df, c, series) ==
    IF has_column(df, c) THEN set_column(df, c, series)
    ELSE [columns |-> Append(df.columns, c),
          rows |-> [i \in 1..Len(df.rows) |-> (c :> series[i]) @@ df.rows[i]]]

(* explode counts a scalar as one element *)
element_count(x) == IF is_list(x) THEN Len(x) ELSE 1

element(x, k) == IF is_list(x) THEN x[k] ELSE NaN

matching_element_counts(rows) ==
    \A i \in 1..Len(rows) :
        element_count(rows[i]["Event Name split"]) = element_count(rows[i]["Event date split"])

(* lines 235-237: one entry per row and position; the index is the row's position *)
explode(rows) ==
    Flatten([i \in 1..Len(rows) |->
        [k \in 1..element_count(rows[i]["Event Name split"]) |->
            [index |-> i,
             name |-> element(rows[i]["Event Name split"], k),
             date |-> element(rows[i]["Event date split"], k)]]])

MonthNames ==
    <<"January", "February", "March", "April", "May", "June", "July", "August",
      "September", "October", "November", "December">>

MonthDigits == <<"01", "02", "03", "04", "05", "06", "07", "08", "09", "10", "11", "12">>

YearOf == ("2023" :> 2023) @@ ("2024" :> 2024) @@ ("2025" :> 2025)

NaT == [NaT |-> TRUE]

(* pd.to_datetime(x, errors="coerce", format="%B %Y") *)
to_datetime(x) ==
    IF /\ x # NaN
       /\ Len(x) = 3
       /\ x[1] \in Range(MonthNames)
       /\ x[2] = " "
       /\ x[3] \in DOMAIN YearOf
    THEN [year |-> YearOf[x[3]],
          month |-> CHOOSE m \in 1..Len(MonthNames) : MonthNames[m] = x[1]]
    ELSE NaT

(* Series.dt.strftime("%Y-%m") *)
strftime(d) ==
    IF d = NaT THEN NaN
    ELSE <<CHOOSE y \in DOMAIN YearOf : YearOf[y] = d.year, "-", MonthDigits[d.month]>>

(* the order of sort_values: ascending, NaT last *)
date_le(a, b) == b = NaT \/ (a # NaT /\ a.year * 12 + a.month <= b.year * 12 + b.month)

entry_le(a, b) == a.index < b.index \/ (a.index = b.index /\ date_le(a.date, b.date))

(* sort_values(["index", "Event date split"]): equal keys keep their order *)
RECURSIVE sort_values(_)
sort_values(es) ==
    IF es = <<>> THEN <<>>
    ELSE LET rest == sort_values(SubSeq(es, 1, Len(es) - 1))
             last == es[Len(es)]
             k == Cardinality({i \in 1..Len(rest) : entry_le(rest[i], last)})
         IN  SubSeq(rest, 1, k) \o <<last>> \o SubSeq(rest, k + 1, Len(rest))

(* drop_duplicates(["index", "Event Name split"], keep="last") *)
RECURSIVE drop_duplicates_keep_last(_)
drop_duplicates_keep_last(es) ==
    IF es = <<>> THEN <<>>
    ELSE (IF \E j \in 2..Len(es) : es[j].index = es[1].index /\ es[j].name = es[1].name
          THEN <<>> ELSE <<Head(es)>>)
         \o drop_duplicates_keep_last(Tail(es))

(* lines 241-258 *)
df_dates_of(rows) ==
    LET exploded == explode(rows)
        parsed == [k \in 1..Len(exploded) |->
                      [exploded[k] EXCEPT !.date = to_datetime(exploded[k].date)]]
        latest == drop_duplicates_keep_last(sort_values(parsed))
    IN  [k \in 1..Len(latest) |-> [latest[k] EXCEPT !.date = strftime(latest[k].date)]]

(* lines 262-267: the entries with a name, one column per name *)
pivot(df_dates) ==
    LET named == SelectSeq(df_dates, LAMBDA e : e.name # NaN)
        index == {named[k].index : k \in 1..Len(named)}
        columns == {named[k].name : k \in 1..Len(named)}
    IN  [index |-> index,
         columns |-> columns,
         cells |-> [i \in index, c \in columns |->
                      IF \E k \in 1..Len(named) : named[k].index = i /\ named[k].name = c
                      THEN named[CHOOSE k \in 1..Len(named) :
                                    named[k].index = i /\ named[k].name = c].date
                      ELSE NaN]]

(* lines 271-280: reindex(expected_event_names, axis=1), then "Event - " + c *)
reindex_and_rename(pv) ==
    [index |-> pv.index,
     columns |-> [k \in 1..Len(expected_event_names) |-> "Event - " \o expected_event_names[k]],
     cells |-> [i \in pv.index |->
                  [c \in {"Event - " \o expected_event_names[k] :
                            k \in 1..Len(expected_event_names)} |->
                      LET n == CHOOSE m \in Range(expected_event_names) : "Event - " \o m = c
                      IN  IF TextOf(n) \in pv.columns THEN pv.cells[i, TextOf(n)] ELSE NaN]]]

(* lines 229-280 *)
ReshapeEvents ==
    /\ pc = "reshape_events"
    /\ LET df1 == assign(df_details, "Event Name split",
                         Series_str_split(get_column(df_details, "Event Name")))
       IN  IF ~has_column(df1, "Event date")
           THEN /\ Abort("reshape_events", "KeyError")
                /\ df_details' = df1
                /\ UNCHANGED df_dates_pivot
           ELSE LET df2 == assign(df1, "Event date split",
                                  Series_str_split(get_column(df1, "Event date")))
                IN  /\ df_details' = df2
                    /\ IF ~matching_element_counts(df2.rows)
                       THEN \* columns must have matching element counts
                            /\ Abort("reshape_events", "ValueError")
                            /\ UNCHANGED df_dates_pivot
                       ELSE /\ df_dates_pivot' = reindex_and_rename(pivot(df_dates_of(df2.rows)))
                            /\ pc' = "join"
                            /\ UNCHANGED abortAt
    /\ UNCHANGED <<Frame, run, first_output, dedup_input>>

(* df_details.join(df_dates_pivot): a left join on the index *)
join(df, pv) ==
    [columns |-> df.columns \o pv.columns,
     rows |-> [i \in 1..Len(df.rows) |->
                  [c \in Range(pv.columns) |-> IF i \in pv.index THEN pv.cells[i][c] ELSE NaN]
                  @@ df.rows[i]]]

(* A faulty variant: the repeats are looked for in the dates *)
event_date_duplicated(r) ==
    LET x == r["Event date split"]
    IN  IF (IF is_list(x) THEN Len(x) ELSE 0) # (IF is_list(x) THEN Cardinality(Range(x)) ELSE 0)
        THEN True ELSE False

(* lines 295-302 *)
event_name_duplicated(r) ==
    LET x == r["Event Name split"]
    IN  IF (IF is_list(x) THEN Len(x) ELSE 0) # (IF is_list(x) THEN Cardinality(Range(x)) ELSE 0)
        THEN True ELSE False

(* lines 306-316 *)
reorder(df) ==
    LET loc == get_loc(df, "Event Name duplicated")
        event_columns == [k \in 1..Len(expected_event_names) |->
                             "Event - " \o expected_event_names[k]]
    IN  [df EXCEPT !.columns =
            SubSeq(df.columns, 1, loc + 1) \o event_columns
            \o SelectSeq(SubSeq(df.columns, loc + 2, Len(df.columns)),
                         LAMBDA c : c \notin Range(event_columns))]

(* df.drop(labels, axis=1) *)
drop(df, labels) ==
    LET columns == SelectSeq(df.columns, LAMBDA c : c \notin labels)
    IN  [columns |-> columns,
         rows |-> [i \in 1..Len(df.rows) |-> [c \in Range(columns) |-> df.rows[i][c]]]]

(* lines 283-324 *)
JoinAndFlag ==
    /\ pc = "join"
    /\ IF Range(df_details.columns) \cap Range(df_dates_pivot.columns) # {}
       THEN /\ Abort("join", "ValueError")   \* columns overlap
            /\ UNCHANGED df_details
       ELSE LET df1 == join(df_details, df_dates_pivot) IN
            IF has_column(df1, "Event Name duplicated")
            THEN /\ Abort("join", "ValueError")  \* cannot insert, already exists
                 /\ df_details' = df1
            ELSE LET df2 == insert(df1, get_loc(df1, "Event date") + 1,
                                   "Event Name duplicated", False)
                     df3 == set_column(df2, "Event Name duplicated",
                                [i \in 1..Len(df2.rows) |-> event_name_duplicated(df2.rows[i])])
                 IN  /\ df_details' = drop(reorder(df3), {"Event Name split", "Event date split"})
                     /\ pc' = "done"
                     /\ UNCHANGED abortAt
    /\ UNCHANGED <<Frame, df_dates_pivot, run, first_output, dedup_input>>

(* The cells from line 139 on, applied once more to the table they made. *)
Rerun ==
    /\ pc = "done"
    /\ run = 1
    /\ run' = 2
    /\ first_output' = df_details
    /\ pc' = "drop_not_found"
    /\ UNCHANGED <<Frame, abortAt, df_details, df_dates_pivot, dedup_input>>

-----------------------------------------------------------------------------
Init ==
    /\ pc = "crawl"
    /\ abortAt = NoAbort
    /\ page = 1
    /\ urlList = <<>>
    /\ pickles = {}
    /\ details_list = <<>>
    /\ df_details = [columns |-> <<>>, rows |-> <<>>]
    /\ df_dates_pivot = <<>>
    /\ run = 1
    /\ first_output = [columns |-> <<>>, rows |-> <<>>]
    /\ fetched = <<>>
    /\ seen = {}
    /\ last_page = NotFoundPage
    /\ dedup_input = <<>>

Next ==
    \/ Crawl
    \/ SaveLinks
    \/ Extract
    \/ SaveDetails
    \/ DropNotFound
    \/ DropDuplicates
    \/ EditData
    \/ CleanEvaluationTypes
    \/ CheckEvaluationTypes
    \/ EvaluationTypeColumns
    \/ CheckEventNames
    \/ ReshapeEvents
    \/ JoinAndFlag
    \/ Rerun

Spec == Init /\ [][Next]_vars

-----------------------------------------------------------------------------
(* Where the run is *)

Cells ==
    <<"crawl", "save_links", "extract", "drop_not_found", "drop_duplicates", "edit_data",
      "clean_evaluation_types", "check_evaluation_types", "evaluation_type_columns",
      "check_event_names", "reshape_events", "join", "done">>

CellIndex(cell) == CHOOSE k \in 1..Len(Cells) : Cells[k] = cell

(* the cell that runs next, or the one that raised *)
Position == IF pc = "aborted" THEN abortAt.cell ELSE pc

(* the cell has run to its end *)
Completed(cell) == run = 2 \/ CellIndex(Position) > CellIndex(cell)

Rows == 1..Len(df_details.rows)

(* the value the detail page gave for column c of row r *)
RawValue(r, c) ==
    LET d == details_list[CHOOSE k \in 1..Len(details_list) :
                              dict_get(details_list[k], "url") = r["url"]]
    IN  IF has_key(d, c) THEN dict_get(d, c) ELSE NaN

EventColumn(name) == "Event - " \o name

(* some value of the non-null cells of column c is not in the expected list *)
OutsideVocabulary(c, expected) ==
    \E v \in unique_values(df_details, c) : v \notin set_of(expected)

(* the assert of the cell failed *)
AssertRaisedAt(cell) ==
    pc = "aborted" /\ abortAt = [cell |-> cell, exception |-> "AssertionError"]

DepartmentColumns == {"Lead department", "Other departments"}

(* the label occurs in the text *)
IsSubstring(label, text) ==
    \E a \in 1..Len(text) : \E b \in a..Len(text) : SubSeq(text, a, b) = <<label>>

IsNotFound(title) == title = <<"Page not found">>

-----------------------------------------------------------------------------
(* C1: in the final table, for a row and an event name that occurs more    *)
(* than once in the row's raw Event Name, the column "Event - <name>" is   *)
(* the YYYY-MM text of the latest parseable date paired with the name's    *)
(* occurrences, and null only when none of those dates parses.             *)
C1_LatestParseableDate ==
    pc = "done" =>
        \A i \in Rows :
            LET r == df_details.rows[i]
                names == str_split(r["Event Name"], ", ")
                dates == str_split(r["Event date"], ", ")
            IN  r["Event Name"] # NaN =>
                \A k \in 1..Len(names) :
                    LET occurrences == {j \in 1..Len(names) : names[j] = names[k]}
                        parsed == {to_datetime(dates[j]) : j \in occurrences} \ {NaT}
                    IN  Cardinality(occurrences) > 1 =>
                        r[EventColumn(names[k][1])] =
                            IF parsed = {} THEN NaN
                            ELSE strftime(CHOOSE d \in parsed : \A e \in parsed : date_le(e, d))

(* C2: the run stops at the assert on Event Name exactly when a value of a  *)
(* non-null Event Name is outside the vocabulary, and at the assert on      *)
(* Evaluation types exactly when a value of a non-null Evaluation types is  *)
(* outside the vocabulary; values inside the vocabulary pass, also when not *)
(* every entry of the vocabulary is used.                                   *)
C2_AbortIffOutsideVocabulary ==
    run = 1 =>
        /\ AssertRaisedAt("check_evaluation_types")
               => OutsideVocabulary("Evaluation types", expected_evaluation_types)
        /\ pc = "evaluation_type_columns"
               => ~OutsideVocabulary("Evaluation types", expected_evaluation_types)
        /\ AssertRaisedAt("check_event_names")
               => OutsideVocabulary("Event Name", expected_event_names)
        /\ pc = "reshape_events"
               => ~OutsideVocabulary("Event Name", expected_event_names)

(* C3, as claimed: when the run aborts, no file has been written. *)
C3_NoArtifactOnAbort == pc = "aborted" => pickles = {}

(* C3, amended: a file is written as soon as the phase that makes it has   *)
(* ended: no file while the crawl runs or when it aborts, the links from   *)
(* the end of the crawl on, the details from the end of the extraction on, *)
(* whatever happens in the cells that follow.                              *)
C3_ArtifactsByPhase ==
    /\ pickles \subseteq {"urls_20250402.pkl", "evaluationdetails_20250414.pkl"}
    /\ "urls_20250402.pkl" \in pickles <=> Completed("save_links")
    /\ "evaluationdetails_20250414.pkl" \in pickles <=> Completed("extract")

(* C3, witness: the assert on Event Name fails with both files written *)
C3_Witness ==
    /\ AssertRaisedAt("check_event_names")
    /\ run = 1
    /\ pickles = {"urls_20250402.pkl", "evaluationdetails_20250414.pkl"}

(* C4: when every listing page has the results container, the loop asks    *)
(* for the pages 1..N in order and ends, and the link collection is the    *)
(* set of the /search/ hrefs of the card links of those pages, each once.  *)
C4_CrawlCollectsLinks ==
    /\ (pc = "aborted" /\ abortAt.cell = "crawl") => abortAt.exception = "AttributeError"
    /\ Completed("crawl") => /\ fetched = [k \in 1..Len(fetched) |-> k]
                             /\ Range(urlList) = seen
    /\ Completed("save_links") => Cardinality(Range(urlList)) = Len(urlList)

(* C5: in the final table "Event Name duplicated" is true exactly for the  *)
(* rows whose raw Event Name, split on ", ", has more elements than        *)
(* distinct elements; a row with a null Event Name has the flag false and  *)
(* its nine "Event - ..." columns null.                                    *)
C5_DuplicateFlag ==
    pc = "done" =>
        \A i \in Rows :
            LET r == df_details.rows[i]
                raw == r["Event Name"]
                names == str_split(raw, ", ")
            IN  /\ r["Event Name duplicated"] \in {True, False}
                /\ r["Event Name duplicated"] = True
                       <=> (raw # NaN /\ Len(names) > Cardinality(Range(names)))
                /\ raw = NaN =>
                       \A k \in 1..Len(expected_event_names) :
                           r[EventColumn(expected_event_names[k])] = NaN

(* C5, witness: a row flagged although the dates of the repeated name agree *)
C5_Witness ==
    /\ pc = "done"
    /\ \E i \in Rows :
           /\ df_details.rows[i]["Event Name"] = <<"Evaluation start", ", ", "Evaluation start">>
           /\ df_details.rows[i]["Event date"] =
                  <<"March", " ", "2024", ", ", "March", " ", "2024">>
           /\ df_details.rows[i]["Event Name duplicated"] = True

(* C6, as claimed: in "Lead department" and "Other departments" a value    *)
(* that begins with "Closed organisation: " loses that leading prefix, and *)
(* every other value is left as it was.                                    *)
C6_LeadingPrefixOnly ==
    (run = 1 /\ Completed("edit_data")) =>
        \A i \in Rows : \A c \in DepartmentColumns :
            LET raw == RawValue(df_details.rows[i], c)
                new == df_details.rows[i][c]
            IN  IF raw # NaN /\ raw # <<>> /\ Head(raw) = CO
                THEN new = Tail(raw)
                ELSE new = raw

(* C6, amended: every occurrence of "Closed organisation: " is removed,    *)
(* the leading one and those further on; a value without the text, and a   *)
(* missing value, are left as they were.                                   *)
C6_EveryOccurrenceRemoved ==
    (run = 1 /\ Completed("edit_data")) =>
        \A i \in Rows : \A c \in DepartmentColumns :
            LET raw == RawValue(df_details.rows[i], c)
                new == df_details.rows[i][c]
            IN  /\ CO \notin Range(raw) => new = raw
                /\ CO \notin Range(new)
                /\ new = SelectSeq(raw, LAMBDA seg : seg # CO)

(* C6, witness: a leading and a non-leading occurrence, both removed *)
C6_Witness ==
    /\ pc = "clean_evaluation_types"
    /\ run = 1
    /\ \E i \in Rows :
           /\ RawValue(df_details.rows[i], "Lead department") = <<CO, "Department X">>
           /\ df_details.rows[i]["Lead department"] = <<"Department X">>
           /\ RawValue(df_details.rows[i], "Other departments")
                  = <<"Department Y", ", ", CO, "Department Z">>
           /\ df_details.rows[i]["Other departments"] = <<"Department Y", ", ", "Department Z">>

(* C7: the cells from line 139 on, applied to the table they made, run to  *)
(* the end and leave the table as it was.                                  *)
C7_Idempotent ==
    run = 2 => /\ pc # "aborted"
               /\ pc = "done" => df_details = first_output

(* C8: once the duplicated rows are dropped, no two rows of the table are  *)
(* equal in every column, also after the edits that follow.                *)
C8_NoEqualRows ==
    Completed("drop_duplicates") =>
        \A i \in Rows : \A j \in Rows : i # j => df_details.rows[i] # df_details.rows[j]

(* C8, witness: two rows that differ in the url alone once the prefix is removed *)
C8_Witness ==
    /\ pc = "done"
    /\ \E i \in Rows : \E j \in Rows :
           /\ i # j
           /\ \A c \in Range(df_details.columns) \ {"url"} :
                  df_details.rows[i][c] = df_details.rows[j][c]
           /\ RawValue(df_details.rows[i], "Lead department")
                  # RawValue(df_details.rows[j], "Lead department")

(* C9: in a run that passes the check of the evaluation types, the four    *)
(* columns follow "Evaluation types" in the order of the vocabulary; for a *)
(* row with a non-null "Evaluation types" the column of a label is true    *)
(* exactly when the label is a substring of the text, and for a row with a *)
(* null one (the empty string included) each column is false or null.      *)
C9_EvaluationTypeFlags ==
    Completed("evaluation_type_columns") =>
        /\ \A k \in 1..Len(expected_evaluation_types) :
               df_details.columns[get_loc(df_details, "Evaluation types") + 1 + k]
                   = expected_evaluation_types[k]
        /\ \A i \in Rows : \A k \in 1..Len(expected_evaluation_types) :
               LET text == df_details.rows[i]["Evaluation types"]
                   label == expected_evaluation_types[k]
                   flag == df_details.rows[i][label]
               IN  IF text # NaN
                   THEN flag = IF IsSubstring(label, text) THEN True ELSE False
                   ELSE flag \in {False, NaN}

(* C9, witness: the row "Impact evaluation, Other" in a finished run *)
C9_Witness ==
    /\ pc = "done"
    /\ \E i \in Rows :
           /\ df_details.rows[i]["Evaluation types"] = <<"Impact evaluation", ", ", "Other">>
           /\ df_details.rows[i]["Impact evaluation"] = True
           /\ df_details.rows[i]["Process evaluation"] = False
           /\ df_details.rows[i]["Value for money evaluation"] = False
           /\ df_details.rows[i]["Other"] = True

(* C10: a page headed "Page not found" gives a record of url and title     *)
(* alone and does not stop the run; its row is dropped before the          *)
(* duplicated rows are looked for, and is not in the final table.          *)
C10_NotFound ==
    /\ \A k \in 1..Len(details_list) :
           IsNotFound(dict_get(details_list[k], "title"))
               => {details_list[k][n].key : n \in 1..Len(details_list[k])} = {"url", "title"}
    /\ (pc = "aborted" /\ abortAt.cell = "extract") => ~IsNotFound(strip(last_page.h1))
    /\ \A n \in 1..Len(dedup_input) : ~IsNotFound(dedup_input[n]["title"])
    /\ Completed("drop_not_found") => \A i \in Rows : ~IsNotFound(df_details.rows[i]["title"])

(* C10, witness: a run that met a not-found page and finished with one row *)
C10_Witness ==
    /\ pc = "done"
    /\ last_page = NotFoundPage
    /\ \E k \in 1..Len(details_list) : IsNotFound(dict_get(details_list[k], "title"))
    /\ Len(df_details.rows) = 1
====
